---- MODULE Spec2Model ----
(***************************************************************************)
(* Model of the multi-model transcription orchestrator of nova             *)
(* (backend/core/orchestrator.py, confidence_analyzer.py, llm_judge.py and *)
(* the provider adapters' transcribe_segment).                             *)
(*                                                                         *)
(* Conventions                                                             *)
(*  - times are integers (milliseconds in the code; the analyzer's         *)
(*    duration parameters, which are constructor arguments in the code,    *)
(*    are instantiated with small values so that minimum, gap and maximum  *)
(*    all fall inside the bounded time axis);                              *)
(*  - confidences are exact rationals in hundredths (<<75, 1>> is 0.75);   *)
(*  - a string is a sequence of one-character strings, so that join and    *)
(*    split are computed, not assumed;                                     *)
(*  - an Optional value is a sequence of length 0 (None) or 1.             *)
(***************************************************************************)
EXTENDS Integers, Sequences, FiniteSets

\* ------------------------------------------------------------------ bounds
\* Analyzer specification: primary transcripts of up to MaxWords words with
\* timestamps in 0..MaxTime.
MaxWords == 3
MaxTime == 6
\* Orchestration specification: primary transcripts of up to MaxRunWords
\* words on an audio file of RunAudioMs ticks.
MaxRunWords == 3
RunAudioMs == 5
\* Words a provider returns for one extracted clip.
MaxCandWords == 1
\* Segment exports that fail in one run.
MaxExportFailures == 1
\* Chain specification of the analyzer: transcripts of up to MaxChainWords
\* words ending by MaxChainTime.
MaxChainWords == 5
MaxChainTime == 6
\* Merge specification: primary transcripts of up to MaxMergeWords words on
\* MergeTime ticks, merged with up to MaxMergeDecisions decisions.
MaxMergeWords == 2
MergeTime == 3
MaxMergeDecisions == 2
\* Runs on transcripts that may hold a word of zero milliseconds: up to
\* MaxInstantWords words.
MaxInstantWords == 2
\* Runs checked for termination: transcripts of up to MaxLiveWords words.
MaxLiveWords == 2
\* Job storage: up to MaxJobs uploaded jobs.
MaxJobs == 2

\* ------------------------------------------------------- program constants
ConfidenceThreshold == 75
MinSegmentDurationMs == 2
MaxSegmentDurationMs == 4
GapThresholdMs == 1
ContextWindowWords == 2
PaddingMs == 1
DefaultConfidenceBoost == 80
FallbackBoostStep == 10

Providers == <<"deepgram", "assemblyai", "whisper">>
ProviderNames == {Providers[k] : k \in 1..Len(Providers)}
ValidSources == ProviderNames \cup {"synthesized"}

None == <<>>
Some(x) == <<x>>

\* ------------------------------------------------------------ small helpers
Min(a, b) == IF a <= b THEN a ELSE b
Max(a, b) == IF a >= b THEN a ELSE b

RECURSIVE GCD(_, _)
GCD(a, b) == IF b = 0 THEN a ELSE GCD(b, a % b)

\* Exact rationals <<numerator, denominator>> in lowest terms stand for the
\* code's float averages.
Rat(n, d) == LET g == GCD(n, d) IN IF g = 0 THEN <<0, 1>> ELSE <<n \div g, d \div g>>
RatAdd(x, y) == Rat(x[1] * y[2] + y[1] * x[2], x[2] * y[2])
RatScale(x, k) == Rat(x[1] * k, x[2])
RatDiv(x, k) == Rat(x[1], x[2] * k)
RatLt(x, y) == x[1] * y[2] < y[1] * x[2]
RatMin(x, y) == IF RatLt(y, x) THEN y ELSE x
\* a confidence of n hundredths
Conf(n) == <<n, 1>>

RECURSIVE SumConfidence(_)
SumConfidence(ws) ==
  IF ws = <<>> THEN <<0, 1>> ELSE RatAdd(ws[1].confidence, SumConfidence(Tail(ws)))

\* " ".join(texts)
RECURSIVE Join(_)
Join(texts) ==
  IF texts = <<>> THEN <<>>
  ELSE IF Len(texts) = 1 THEN texts[1]
  ELSE texts[1] \o <<" ">> \o Join(Tail(texts))

Texts(ws) == [k \in 1..Len(ws) |-> ws[k].text]

\* s[-k:] if len(s) > k else s
LastK(s, k) == IF Len(s) > k THEN SubSeq(s, Len(s) - k + 1, Len(s)) ELSE s
\* s[:k]
FirstK(s, k) == SubSeq(s, 1, Min(k, Len(s)))

\* ------------------------------------------------------------- data model
Word(text, s, e, c, spk) ==
  [text |-> text, start_time_ms |-> s, end_time_ms |-> e, confidence |-> c, speaker |-> spk]

\* wi.end_ms <= wi+1.start_ms for consecutive words
Monotonic(ws) ==
  \A k \in 1..(Len(ws) - 1) : ws[k].end_time_ms <= ws[k + 1].start_time_ms

WellFormedWords(ws) ==
  /\ \A k \in 1..Len(ws) : ws[k].start_time_ms <= ws[k].end_time_ms
  /\ Monotonic(ws)

get_context_before(t, position_ms, word_count) ==
  LET Before(w) == w.end_time_ms <= position_ms
  IN Join(Texts(LastK(SelectSeq(t.words, Before), word_count)))

get_context_after(t, position_ms, word_count) ==
  LET After(w) == w.start_time_ms >= position_ms
  IN Join(Texts(FirstK(SelectSeq(t.words, After), word_count)))

original_text(seg) == Join(Texts(seg.original_words))

\* --------------------------------------------------- confidence analyzer
UncertainSegment(s, e, ws, avg, cb, ca) ==
  [start_time_ms |-> s, end_time_ms |-> e, original_words |-> ws,
   average_confidence |-> avg, context_before |-> cb, context_after |-> ca]

\* A variant of _create_segment that also drops a group lasting exactly the
\* minimum duration.
create_segment_inclusive(ws, t) ==
  IF ws = <<>> THEN None
  ELSE LET start_time_ms == ws[1].start_time_ms
           end_time_ms == ws[Len(ws)].end_time_ms
       IN IF end_time_ms - start_time_ms <= MinSegmentDurationMs THEN None
          ELSE Some(UncertainSegment(
                 start_time_ms, end_time_ms, ws,
                 RatDiv(SumConfidence(ws), Len(ws)),
                 get_context_before(t, start_time_ms, ContextWindowWords),
                 get_context_after(t, end_time_ms, ContextWindowWords)))

\* A group shorter than the minimum yields None.
create_segment(ws, t) ==
  IF ws = <<>> THEN None
  ELSE LET start_time_ms == ws[1].start_time_ms
           end_time_ms == ws[Len(ws)].end_time_ms
       IN IF end_time_ms - start_time_ms < MinSegmentDurationMs THEN None
          ELSE Some(UncertainSegment(
                 start_time_ms, end_time_ms, ws,
                 RatDiv(SumConfidence(ws), Len(ws)),
                 get_context_before(t, start_time_ms, ContextWindowWords),
                 get_context_after(t, end_time_ms, ContextWindowWords)))

\* The grouping loop of identify_uncertain_segments: i is the next word,
\* cur the running group of consecutive low-confidence words.
RECURSIVE group_words(_, _, _, _)
group_words(t, i, cur, segs) ==
  IF i > Len(t.words)
  THEN IF cur # <<>> THEN segs \o create_segment(cur, t) ELSE segs
  ELSE LET word == t.words[i]
       IN IF RatLt(word.confidence, Conf(ConfidenceThreshold))
          THEN group_words(t, i + 1, Append(cur, word), segs)
          ELSE IF cur # <<>>
               THEN group_words(t, i + 1, <<>>, segs \o create_segment(cur, t))
               ELSE group_words(t, i + 1, <<>>, segs)

MergeTwo(last, segment) ==
  LET merged_words == last.original_words \o segment.original_words
  IN UncertainSegment(
       last.start_time_ms, segment.end_time_ms, merged_words,
       RatDiv(RatAdd(RatScale(last.average_confidence, Len(last.original_words)),
                     RatScale(segment.average_confidence, Len(segment.original_words))),
              Len(merged_words)),
       last.context_before, segment.context_after)

\* merge_loop that leaves two segments apart when their gap equals the
\* threshold
RECURSIVE merge_loop_strict(_, _)
merge_loop_strict(merged, rest) ==
  IF rest = <<>> THEN merged
  ELSE LET segment == rest[1]
           last == merged[Len(merged)]
           gap == segment.start_time_ms - last.end_time_ms
       IN IF gap < GapThresholdMs
          THEN merge_loop_strict([merged EXCEPT ![Len(merged)] = MergeTwo(last, segment)], Tail(rest))
          ELSE merge_loop_strict(Append(merged, segment), Tail(rest))

RECURSIVE merge_loop(_, _)
merge_loop(merged, rest) ==
  IF rest = <<>> THEN merged
  ELSE LET segment == rest[1]
           last == merged[Len(merged)]
           gap == segment.start_time_ms - last.end_time_ms
       IN IF gap <= GapThresholdMs
          THEN merge_loop([merged EXCEPT ![Len(merged)] = MergeTwo(last, segment)], Tail(rest))
          ELSE merge_loop(Append(merged, segment), Tail(rest))

merge_adjacent_segments(segs) ==
  IF segs = <<>> THEN <<>> ELSE merge_loop(<<segs[1]>>, Tail(segs))

\* A variant of the split loop that leaves out the remaining words after the
\* last full chunk.
RECURSIVE split_words_drop_rest(_, _, _, _, _)
split_words_drop_rest(segment, ws, chunk_words, chunk_start_ms, out) ==
  IF ws = <<>>
  THEN out
  ELSE LET word == ws[1]
           chunk == Append(chunk_words, word)
           chunk_duration == word.end_time_ms - chunk_start_ms
       IN IF chunk_duration >= MaxSegmentDurationMs
          THEN split_words_drop_rest(segment, Tail(ws), <<>>, word.end_time_ms,
                 Append(out, UncertainSegment(
                   chunk_start_ms, word.end_time_ms, chunk,
                   RatDiv(SumConfidence(chunk), Len(chunk)),
                   segment.context_before, segment.context_after)))
          ELSE split_words_drop_rest(segment, Tail(ws), chunk, chunk_start_ms, out)

\* split_words with chunk_start_ms left where it was when a chunk closes
RECURSIVE split_words_stale_start(_, _, _, _, _)
split_words_stale_start(segment, ws, chunk_words, chunk_start_ms, out) ==
  IF ws = <<>>
  THEN IF chunk_words # <<>>
       THEN Append(out, UncertainSegment(
              chunk_start_ms, chunk_words[Len(chunk_words)].end_time_ms, chunk_words,
              RatDiv(SumConfidence(chunk_words), Len(chunk_words)),
              segment.context_before, segment.context_after))
       ELSE out
  ELSE LET word == ws[1]
           chunk == Append(chunk_words, word)
           chunk_duration == word.end_time_ms - chunk_start_ms
       IN IF chunk_duration >= MaxSegmentDurationMs
          THEN split_words_stale_start(segment, Tail(ws), <<>>, chunk_start_ms,
                 Append(out, UncertainSegment(
                   chunk_start_ms, word.end_time_ms, chunk,
                   RatDiv(SumConfidence(chunk), Len(chunk)),
                   segment.context_before, segment.context_after)))
          ELSE split_words_stale_start(segment, Tail(ws), chunk, chunk_start_ms, out)

\* The inner loop of _split_long_segments over the words of one long
\* segment, followed by the remainder chunk.
RECURSIVE split_words(_, _, _, _, _)
split_words(segment, ws, chunk_words, chunk_start_ms, out) ==
  IF ws = <<>>
  THEN IF chunk_words # <<>>
       THEN Append(out, UncertainSegment(
              chunk_start_ms, chunk_words[Len(chunk_words)].end_time_ms, chunk_words,
              RatDiv(SumConfidence(chunk_words), Len(chunk_words)),
              segment.context_before, segment.context_after))
       ELSE out
  ELSE LET word == ws[1]
           chunk == Append(chunk_words, word)
           chunk_duration == word.end_time_ms - chunk_start_ms
       IN IF chunk_duration >= MaxSegmentDurationMs
          THEN split_words(segment, Tail(ws), <<>>, word.end_time_ms,
                 Append(out, UncertainSegment(
                   chunk_start_ms, word.end_time_ms, chunk,
                   RatDiv(SumConfidence(chunk), Len(chunk)),
                   segment.context_before, segment.context_after)))
          ELSE split_words(segment, Tail(ws), chunk, chunk_start_ms, out)

split_one(segment) ==
  IF segment.end_time_ms - segment.start_time_ms <= MaxSegmentDurationMs
  THEN <<segment>>
  ELSE LET words == segment.original_words
       IN split_words(segment, words, <<>>,
                      IF words # <<>> THEN words[1].start_time_ms ELSE 0, <<>>)

RECURSIVE split_long_segments(_)
split_long_segments(segs) ==
  IF segs = <<>> THEN <<>>
  ELSE split_one(segs[1]) \o split_long_segments(Tail(segs))

identify_uncertain_segments(t) ==
  split_long_segments(merge_adjacent_segments(group_words(t, 1, <<>>, <<>>)))

\* ------------------------------------------------------ provider adapters
TranscriptionResult(full_text, ws, conf, duration_ms, model_name) ==
  [full_text |-> full_text, words |-> ws, overall_confidence |-> conf,
   duration_ms |-> duration_ms, model_name |-> model_name]

\* _calculate_overall_confidence: the mean, 0.0 for no words
calculate_overall_confidence(ws) ==
  IF ws = <<>> THEN <<0, 1>> ELSE RatDiv(SumConfidence(ws), Len(ws))

\* The clip _extract_audio_segment cuts out of an audio file of audio_len
\* ticks: [max(0, start - padding), min(len(audio), end + padding)].
extract_audio_segment(audio_len, start_time_ms, end_time_ms) ==
  [start |-> Max(0, start_time_ms - PaddingMs),
   end |-> Min(audio_len, end_time_ms + PaddingMs)]

\* transcribe_segment after the provider answered clip_result (word times
\* relative to the clip): every word is shifted by start_time_ms.
transcribe_segment(clip_result, start_time_ms) ==
  [clip_result EXCEPT !.words =
     [k \in 1..Len(clip_result.words) |->
        [clip_result.words[k] EXCEPT
           !.start_time_ms = @ + start_time_ms,
           !.end_time_ms = @ + start_time_ms]]]

\* ------------------------------------------------------------------ judge
JMissing == [tag |-> "missing", s |-> "", n |-> <<0, 1>>]
JNull == [tag |-> "null", s |-> "", n |-> <<0, 1>>]
JStr(x) == [tag |-> "str", s |-> x, n |-> <<0, 1>>]
JNum(x) == [tag |-> "num", s |-> "", n |-> x]

\* str.lower() on the source names the model's responses use
Lower(x) ==
  CASE x = "Whisper" -> "whisper"
    [] x = "SYNTHESIZED" -> "synthesized"
    [] OTHER -> x

Present(candidates) == {k \in 1..Len(candidates) : candidates[k] # None}

\* The scan of _fallback_decision over candidates.items(): k is the next
\* provider, best the running (source, confidence, text).
RECURSIVE fallback_scan(_, _, _)
fallback_scan(candidates, k, best) ==
  IF k > Len(candidates) THEN best
  ELSE IF /\ candidates[k] # None
          /\ RatLt(best.confidence, candidates[k][1].overall_confidence)
       THEN fallback_scan(candidates, k + 1,
              [source |-> Providers[k],
               confidence |-> candidates[k][1].overall_confidence,
               text |-> candidates[k][1].full_text])
       ELSE fallback_scan(candidates, k + 1, best)

\* min(best_confidence + 0.1, 1.0)
FallbackBoost(conf) == RatMin(RatAdd(conf, Conf(FallbackBoostStep)), Conf(100))

fallback_decision(segment, candidates) ==
  LET best == fallback_scan(candidates, 1,
                [source |-> "deepgram", confidence |-> <<0, 1>>,
                 text |-> original_text(segment)])
  IN [chosen_source |-> JStr(best.source),
      final_text |-> Some(best.text),
      reasoning |-> Some("Automatic fallback: selected highest confidence"),
      confidence_boost |-> JNum(FallbackBoost(best.confidence)),
      synthesis_justification |-> None]

CandidateTranscription(name, result) ==
  [model_name |-> name, text |-> result.full_text,
   confidence |-> result.overall_confidence, words |-> result.words]

\* the dict built from the providers whose result is not None
candidate_transcriptions(candidates) ==
  [name \in {Providers[k] : k \in Present(candidates)} |->
     LET k == CHOOSE j \in Present(candidates) : Providers[j] = name
     IN CandidateTranscription(name, candidates[k][1])]

Raised(e) == [ok |-> FALSE, error |-> e]
Returned(d) == [ok |-> TRUE, decision |-> d]

\* OrchestratorDecision(...): pydantic validates confidence_boost in [0, 1]
OrchestratorDecision(segment, cands, chosen_source, final_text, reasoning, confidence_boost, synthesis_justification) ==
  IF RatLt(confidence_boost, Conf(0)) \/ RatLt(Conf(100), confidence_boost)
  THEN Raised("ValidationError")
  ELSE Returned(
         [segment |-> segment, candidate_transcriptions |-> cands,
          chosen_source |-> chosen_source, final_text |-> final_text,
          reasoning |-> reasoning, confidence_boost |-> confidence_boost,
          was_synthesized |-> (chosen_source = "synthesized"),
          synthesis_justification |-> synthesis_justification])

\* _parse_response. A response is [kind, data]: kind "object" is a JSON
\* object, "embedded" a non-JSON text holding one JSON object, "garbage"
\* a text holding none, "nonobject" valid JSON that is no object.
parse_response(response, segment, candidates) ==
  IF response.kind = "nonobject" THEN Raised("AttributeError")
  ELSE
    LET data == IF response.kind = "garbage"
                THEN fallback_decision(segment, candidates)
                ELSE response.data
        src == data.chosen_source
        boost == data.confidence_boost
    IN IF src.tag \notin {"missing", "str"} THEN Raised("AttributeError")
       ELSE IF boost.tag \notin {"missing", "num"} THEN Raised("TypeError")
       ELSE
         LET lowered == IF src.tag = "missing" THEN "deepgram" ELSE Lower(src.s)
             chosen_source == IF lowered \notin ValidSources THEN "deepgram" ELSE lowered
             final_text == IF data.final_text = None THEN original_text(segment)
                           ELSE data.final_text[1]
             reasoning == IF data.reasoning = None THEN "Automatic selection"
                          ELSE data.reasoning[1]
             confidence_boost == IF boost.tag = "missing" THEN Conf(DefaultConfidenceBoost)
                                 ELSE boost.n
         IN OrchestratorDecision(segment, candidate_transcriptions(candidates),
              chosen_source, final_text, reasoning, confidence_boost,
              data.synthesis_justification)

\* ------------------------------------------------------------------ merge
IsSpace(c) == c = " "

\* str.split(): the maximal runs of non-whitespace characters
RECURSIVE split_chars(_, _, _)
split_chars(chars, cur, out) ==
  IF chars = <<>> THEN (IF cur = <<>> THEN out ELSE Append(out, cur))
  ELSE IF IsSpace(chars[1])
       THEN split_chars(Tail(chars), <<>>, IF cur = <<>> THEN out ELSE Append(out, cur))
       ELSE split_chars(Tail(chars), Append(cur, chars[1]), out)

Split(text) == split_chars(text, <<>>, <<>>)

\* create_words_from_text with each word ending where the next one starts
create_words_stretched(text, start_ms, end_ms, confidence) ==
  LET words_list == Split(text)
      n == Len(words_list)
      duration == end_ms - start_ms
  IN IF n = 0 THEN <<>>
     ELSE [k \in 1..n |->
            LET word_start == start_ms + ((k - 1) * duration) \div n
                word_end == start_ms + (k * duration) \div n
            IN Word(words_list[k], word_start, word_end, confidence, None)]

\* word_duration = duration / n is a float in the code and int() truncates:
\* word_start = int(start + i * word_duration) is start + (i * duration) \div n
\* in exact arithmetic, and word_end = int(word_start + word_duration) is
\* word_start + duration \div n.  (The float product i * word_duration can
\* fall just below an integer when n divides i * duration but not duration,
\* which needs n >= 4 tokens: not within the texts used here.)
create_words_from_text(text, start_ms, end_ms, confidence) ==
  LET words_list == Split(text)
      n == Len(words_list)
      duration == end_ms - start_ms
  IN IF n = 0 THEN <<>>
     ELSE [k \in 1..n |->
            LET word_start == start_ms + ((k - 1) * duration) \div n
                word_end == word_start + duration \div n
            IN Word(words_list[k], word_start, word_end, confidence, None)]

Boosted(ws, confidence) ==
  [k \in 1..Len(ws) |-> [ws[k] EXCEPT !.confidence = confidence]]

\* replacement_words with the chosen candidate's words left at their own
\* confidence
replacement_words_unboosted(decision) ==
  IF decision.chosen_source = "synthesized"
  THEN create_words_from_text(decision.final_text,
         decision.segment.start_time_ms, decision.segment.end_time_ms,
         decision.confidence_boost)
  ELSE IF decision.chosen_source \in DOMAIN decision.candidate_transcriptions
       THEN decision.candidate_transcriptions[decision.chosen_source].words
       ELSE Boosted(decision.segment.original_words, decision.confidence_boost)

\* the words a decision puts in place of its segment
replacement_words(decision) ==
  IF decision.chosen_source = "synthesized"
  THEN create_words_from_text(decision.final_text,
         decision.segment.start_time_ms, decision.segment.end_time_ms,
         decision.confidence_boost)
  ELSE IF decision.chosen_source \in DOMAIN decision.candidate_transcriptions
       THEN Boosted(decision.candidate_transcriptions[decision.chosen_source].words,
                    decision.confidence_boost)
       ELSE Boosted(decision.segment.original_words, decision.confidence_boost)

\* skip_words that steps over the matched word only
RECURSIVE skip_words_one(_, _, _)
skip_words_one(ws, i, end_time_ms) == i + 1

\* while i < len(words) and words[i].end_time_ms <= segment.end_time_ms: i += 1
RECURSIVE skip_words(_, _, _)
skip_words(ws, i, end_time_ms) ==
  IF i <= Len(ws) /\ ws[i].end_time_ms <= end_time_ms
  THEN skip_words(ws, i + 1, end_time_ms)
  ELSE i

\* The walk of _merge_decisions; i and decision_index are 1-based here.
RECURSIVE merge_walk(_, _, _, _, _)
merge_walk(ws, decisions, i, decision_index, merged_words) ==
  IF i > Len(ws)
  THEN [merged_words |-> merged_words, decision_index |-> decision_index]
  ELSE LET word == ws[i]
       IN IF /\ decision_index <= Len(decisions)
             /\ word.start_time_ms >= decisions[decision_index].segment.start_time_ms
             /\ word.end_time_ms <= decisions[decision_index].segment.end_time_ms
          THEN merge_walk(ws, decisions,
                 skip_words(ws, i, decisions[decision_index].segment.end_time_ms),
                 decision_index + 1,
                 merged_words \o replacement_words(decisions[decision_index]))
          ELSE merge_walk(ws, decisions, i + 1, decision_index, Append(merged_words, word))

merge_decisions(primary_result, decisions) ==
  IF decisions = <<>> THEN primary_result
  ELSE LET merged_words == merge_walk(primary_result.words, decisions, 1, 1, <<>>).merged_words
       IN TranscriptionResult(
            Join(Texts(merged_words)),
            merged_words,
            IF merged_words # <<>> THEN RatDiv(SumConfidence(merged_words), Len(merged_words))
            ELSE primary_result.overall_confidence,
            primary_result.duration_ms,
            "orchestrated")

\* ----------------------------------------------------------------- inputs
Letters == <<"a", "b", "c", "d", "e", "f">>
\* one confidence below the threshold and one above
WordConfidences == {Conf(40), Conf(90)}

\* The well-formed word lists of at most n words with timestamps in
\* 0..max_t and every word at least min_dur long; the k-th word of a
\* transcript carries the k-th letter.
RECURSIVE WordSeqs(_, _, _)
WordSeqs(n, max_t, min_dur) ==
  IF n = 0 THEN {<<>>}
  ELSE LET shorter == WordSeqs(n - 1, max_t, min_dur)
           LastEnd(ws) == IF ws = <<>> THEN 0 ELSE ws[Len(ws)].end_time_ms
       IN shorter \cup UNION {
            {Append(ws, Word(<<Letters[n]>>, x[1], x[2], x[3], Some("0"))) :
               x \in {y \in (LastEnd(ws)..max_t) \X (LastEnd(ws)..max_t) \X WordConfidences :
                        y[1] + min_dur <= y[2]}} :
            ws \in {v \in shorter : Len(v) = n - 1}}

\* what the primary provider's whole-file transcribe can return
PrimaryResult(ws, audio_len) ==
  TranscriptionResult(Join(Texts(ws)), ws, calculate_overall_confidence(ws),
                      audio_len, "deepgram-nova-3")

RunTranscripts ==
  {PrimaryResult(ws, RunAudioMs) : ws \in WordSeqs(MaxRunWords, RunAudioMs, 1)}

ModelNames == <<"deepgram-nova-3", "assemblyai-universal", "whisper-1">>
CandidateLetters == <<"x", "y", "z">>
CandidateConfidences == <<40, 55, 50>>

\* What provider k answers for a clip of clip_len ticks: MaxCandWords words
\* that tile the clip, with times relative to the clip.
ClipResult(k, clip_len) ==
  LET n == MaxCandWords
      ws == [j \in 1..n |->
               Word(<<CandidateLetters[k]>>,
                    ((j - 1) * clip_len) \div n, (j * clip_len) \div n,
                    Conf(CandidateConfidences[k]), None)]
  IN TranscriptionResult(Join(Texts(ws)), ws, calculate_overall_confidence(ws),
                         clip_len, ModelNames[k])

Data(src, text, boost, just) ==
  [chosen_source |-> src, final_text |-> text, reasoning |-> Some("because"),
   confidence_boost |-> boost, synthesis_justification |-> just]

SynthText == <<"u", " ", " ", "v">>
\* the empty JSON object: every data.get falls to its default
NoData ==
  [chosen_source |-> JMissing, final_text |-> None, reasoning |-> None,
   confidence_boost |-> JMissing, synthesis_justification |-> None]

\* the JSON objects the judge's LLM is taken to answer with
JudgeData ==
  {Data(JStr(src), Some(<<"x">>), JNum(Conf(90)), None) :
     src \in {"deepgram", "assemblyai", "Whisper", "gpt"}}
  \cup {Data(JStr("synthesized"), Some(SynthText), JNum(Conf(70)), just) :
          just \in {None, Some("all wrong")}}
  \cup {Data(JStr("assemblyai"), Some(<<"y">>), boost, None) :
          boost \in {JNull, JNum(Conf(150)), JNum(Conf(-50))}}
  \cup {Data(JStr("deepgram"), Some(<<"x">>), JNum(Conf(90)), Some("all wrong")),
        Data(JNull, Some(<<"x">>), JNum(Conf(90)), None),
        NoData}

JudgeResponses ==
  {[kind |-> "object", data |-> d] : d \in JudgeData}
  \cup {[kind |-> "embedded",
         data |-> Data(JStr("Whisper"), Some(<<"x">>), JNum(Conf(90)), None)],
        [kind |-> "garbage", data |-> NoData],
        [kind |-> "nonobject", data |-> NoData]}

\* ------------------------------------------------------------------ state
VARIABLES
  pc,               \* where process_audio stands
  primary_result,   \* Optional: the primary provider's result
  uncertain_segments,
  seg_index,        \* the segment the loop of _process_uncertain_segments is at
  candidate_results,\* results of the providers awaited so far for that segment
  decisions,
  final_result,     \* Optional: the transcript process_audio returns
  error,            \* the exception process_audio raised, "" if none
  calls,            \* how often each collaborator was invoked
  in_flight,        \* providers whose transcribe_segment has started and not ended
  temp_files,       \* the temp files on disk, each named by the call that made it
  transcription_jobs, \* the in-memory job storage of the transcription routes
  task,             \* where each job's process_transcription task stands
  running,          \* the job whose task is inside a synchronous block, or 0
  last_response     \* the last response to a status or result request

run_vars == <<pc, primary_result, uncertain_segments, seg_index, candidate_results,
              decisions, final_result, error, calls, in_flight, temp_files>>

job_vars == <<transcription_jobs, task, running, last_response>>

vars == <<run_vars, job_vars>>

\* Jobs are numbered 1..MaxJobs in the order of their uuid4 identifiers.
JobIds == 1..MaxJobs

\* transcription_jobs: dict = {} at import, no task, no request answered
NoJobs ==
  /\ transcription_jobs = [j \in JobIds |-> None]
  /\ task = [j \in JobIds |-> "none"]
  /\ running = 0
  /\ last_response = None

NoCalls == [primary |-> 0, analyze |-> 0, segment |-> 0, judge |-> 0, merge |-> 0]

Init ==
  /\ pc = "primary"
  /\ primary_result = None
  /\ uncertain_segments = <<>>
  /\ seg_index = 0
  /\ candidate_results = <<>>
  /\ decisions = <<>>
  /\ final_result = None
  /\ error = ""
  /\ calls = NoCalls
  /\ in_flight = {}
  /\ temp_files = {}
  /\ NoJobs

\* Step 1: await self.services["deepgram"].transcribe(...) returns
PrimaryReturns ==
  /\ pc = "primary"
  /\ \E t \in RunTranscripts : primary_result' = Some(t)
  /\ pc' = "analyze"
  /\ calls' = [calls EXCEPT !.primary = @ + 1]
  /\ UNCHANGED <<uncertain_segments, seg_index, candidate_results, decisions,
                 final_result, error>>
  /\ UNCHANGED <<in_flight, temp_files>>
  /\ UNCHANGED job_vars

\* PrimaryFails with the error swallowed: the run returns an empty transcript
PrimaryFailsSwallowed ==
  /\ pc = "primary"
  /\ pc' = "done"
  /\ final_result' = Some(PrimaryResult(<<>>, RunAudioMs))
  /\ calls' = [calls EXCEPT !.primary = @ + 1]
  /\ UNCHANGED <<primary_result, uncertain_segments, seg_index, candidate_results,
                 decisions, error>>
  /\ UNCHANGED <<in_flight, temp_files>>
  /\ UNCHANGED job_vars

\* Step 1 raises: nothing in process_audio catches it
PrimaryFails ==
  /\ pc = "primary"
  /\ pc' = "failed"
  /\ error' = "PrimaryError"
  /\ calls' = [calls EXCEPT !.primary = @ + 1]
  /\ UNCHANGED <<primary_result, uncertain_segments, seg_index, candidate_results,
                 decisions, final_result>>
  /\ UNCHANGED <<in_flight, temp_files>>
  /\ UNCHANGED job_vars

\* Analyze with the early return handing back a relabelled copy of the
\* primary transcript
AnalyzeRelabels ==
  /\ pc = "analyze"
  /\ LET segs == identify_uncertain_segments(primary_result[1])
     IN /\ uncertain_segments' = segs
        /\ IF segs = <<>>
           THEN /\ pc' = "done"
                /\ final_result' = Some([primary_result[1] EXCEPT !.model_name = "orchestrated"])
                /\ seg_index' = seg_index
           ELSE /\ pc' = "fanout"
                /\ final_result' = final_result
                /\ seg_index' = 1
  /\ calls' = [calls EXCEPT !.analyze = @ + 1]
  /\ UNCHANGED <<primary_result, candidate_results, decisions, error>>
  /\ UNCHANGED <<in_flight, temp_files>>
  /\ UNCHANGED job_vars

\* Step 2: identify_uncertain_segments, and the early return when there is none
Analyze ==
  /\ pc = "analyze"
  /\ LET segs == identify_uncertain_segments(primary_result[1])
     IN /\ uncertain_segments' = segs
        /\ IF segs = <<>>
           THEN /\ pc' = "done"
                /\ final_result' = primary_result
                /\ seg_index' = seg_index
           ELSE /\ pc' = "fanout"
                /\ final_result' = final_result
                /\ seg_index' = 1
  /\ calls' = [calls EXCEPT !.analyze = @ + 1]
  /\ UNCHANGED <<primary_result, candidate_results, decisions, error>>
  /\ UNCHANGED <<in_flight, temp_files>>
  /\ UNCHANGED job_vars

CurrentSegment == uncertain_segments[seg_index]
CurrentClip ==
  extract_audio_segment(primary_result[1].duration_ms,
                        CurrentSegment.start_time_ms, CurrentSegment.end_time_ms)

\* _get_all_transcriptions first builds tasks[name] = service.transcribe_segment(...)
\* for every provider: calling an async def only creates a coroutine object,
\* nothing of it runs.  The second loop awaits the coroutines one by one in
\* self.services order, and each runs from its start to its end inside that
\* await.  NextProvider is the provider whose coroutine is awaited next.
NextProvider == Len(candidate_results) + 1

\* the temp file NamedTemporaryFile(delete=False) makes for one call
TempFile(segment_index, provider) == [segment |-> segment_index, provider |-> provider]
CurrentTemp == TempFile(seg_index, NextProvider)

\* the fan-out of a segment is over when every provider has a result
FanoutCompleteEarly(results) == Len(results) >= 1
FanoutComplete(results) == Len(results) = Len(Providers)

\* results[name] = <result or None>, then the next await or the return
AfterSegmentCall(result) ==
  /\ candidate_results' = Append(candidate_results, result)
  /\ pc' = IF FanoutComplete(candidate_results') THEN "judge" ELSE "fanout"
  /\ in_flight' = {}
  /\ UNCHANGED <<primary_result, uncertain_segments, seg_index, decisions,
                 final_result, error>>
  /\ UNCHANGED job_vars

\* await task starts the coroutine: _extract_audio_segment runs (it has no
\* await), writes the temp file, and the call suspends in self.transcribe
SegmentCallStarts ==
  /\ pc = "fanout"
  /\ in_flight = {}
  /\ in_flight' = {NextProvider}
  /\ temp_files' = temp_files \cup {CurrentTemp}
  /\ calls' = [calls EXCEPT !.segment = @ + 1]
  /\ UNCHANGED <<pc, primary_result, uncertain_segments, seg_index, candidate_results,
                 decisions, final_result, error>>
  /\ UNCHANGED job_vars

\* AudioSegment.from_file raises in _extract_audio_segment, before the temp
\* file exists; except Exception: results[name] = None
SegmentLoadFails ==
  /\ pc = "fanout"
  /\ in_flight = {}
  /\ AfterSegmentCall(None)
  /\ calls' = [calls EXCEPT !.segment = @ + 1]
  /\ UNCHANGED temp_files

\* segment.export raises in _extract_audio_segment, after
\* NamedTemporaryFile(delete=False) made the file and outside the try/finally
\* of transcribe_segment; except Exception: results[name] = None
SegmentExportFails ==
  /\ pc = "fanout"
  /\ in_flight = {}
  /\ Cardinality(temp_files) < MaxExportFailures
  /\ AfterSegmentCall(None)
  /\ temp_files' = temp_files \cup {CurrentTemp}
  /\ calls' = [calls EXCEPT !.segment = @ + 1]

\* self.transcribe returns; the words are re-anchored, finally removes the file
SegmentCallReturns ==
  /\ pc = "fanout"
  /\ in_flight = {NextProvider}
  /\ AfterSegmentCall(Some(transcribe_segment(
       ClipResult(NextProvider, CurrentClip.end - CurrentClip.start),
       CurrentSegment.start_time_ms)))
  /\ temp_files' = temp_files \ {CurrentTemp}
  /\ UNCHANGED calls

\* self.transcribe raises; finally removes the file;
\* except Exception: results[name] = None
SegmentCallFails ==
  /\ pc = "fanout"
  /\ in_flight = {NextProvider}
  /\ AfterSegmentCall(None)
  /\ temp_files' = temp_files \ {CurrentTemp}
  /\ UNCHANGED calls

\* the task running process_audio is cancelled while the call is suspended
\* in self.transcribe: finally removes the file, and CancelledError, which
\* is no Exception, leaves _get_all_transcriptions and process_audio
SegmentCallCancelled ==
  /\ pc = "fanout"
  /\ in_flight = {NextProvider}
  /\ in_flight' = {}
  /\ temp_files' = temp_files \ {CurrentTemp}
  /\ pc' = "failed"
  /\ error' = "CancelledError"
  /\ UNCHANGED <<primary_result, uncertain_segments, seg_index, candidate_results,
                 decisions, final_result, calls>>
  /\ UNCHANGED job_vars

\* A variant of JudgeRaises in which the failed judge call sends the segment
\* back to the provider fan-out.
JudgeRaisesRetry ==
  /\ pc = "judge"
  /\ pc' = "fanout"
  /\ candidate_results' = <<>>
  /\ UNCHANGED <<primary_result, uncertain_segments, seg_index, decisions,
                 final_result, error, calls>>
  /\ UNCHANGED <<in_flight, temp_files>>
  /\ UNCHANGED job_vars

\* await self.client.chat.completions.create(...) raises inside evaluate,
\* which has no handler, and neither has its caller
JudgeRaises ==
  /\ pc = "judge"
  /\ pc' = "failed"
  /\ error' = "JudgeError"
  /\ calls' = [calls EXCEPT !.judge = @ + 1]
  /\ UNCHANGED <<primary_result, uncertain_segments, seg_index, candidate_results,
                 decisions, final_result>>
  /\ UNCHANGED <<in_flight, temp_files>>
  /\ UNCHANGED job_vars

\* decisions.append(decision), and the same with the decision put first
CollectDecisionFirst(collected, decision) == <<decision>> \o collected
CollectDecision(collected, decision) == Append(collected, decision)

\* the LLM answers; _parse_response builds the decision or raises
JudgeResponds ==
  /\ pc = "judge"
  /\ \E response \in JudgeResponses :
       LET out == parse_response(response, CurrentSegment, candidate_results)
       IN IF out.ok
          THEN /\ decisions' = CollectDecision(decisions, out.decision)
               /\ error' = error
               /\ candidate_results' = <<>>
               /\ IF seg_index < Len(uncertain_segments)
                  THEN seg_index' = seg_index + 1 /\ pc' = "fanout"
                  ELSE seg_index' = seg_index /\ pc' = "merge"
          ELSE /\ pc' = "failed"
               /\ error' = out.error
               /\ UNCHANGED <<decisions, candidate_results, seg_index>>
  /\ calls' = [calls EXCEPT !.judge = @ + 1]
  /\ UNCHANGED <<primary_result, uncertain_segments, final_result>>
  /\ UNCHANGED <<in_flight, temp_files>>
  /\ UNCHANGED job_vars

\* Step 4: _merge_decisions, then return final_result, decisions
Merge ==
  /\ pc = "merge"
  /\ final_result' = Some(merge_decisions(primary_result[1], decisions))
  /\ pc' = "done"
  /\ calls' = [calls EXCEPT !.merge = @ + 1]
  /\ UNCHANGED <<primary_result, uncertain_segments, seg_index, candidate_results,
                 decisions, error>>
  /\ UNCHANGED <<in_flight, temp_files>>
  /\ UNCHANGED job_vars

Next ==
  \/ PrimaryReturns
  \/ PrimaryFails
  \/ Analyze
  \/ SegmentCallStarts
  \/ SegmentLoadFails
  \/ SegmentCallReturns
  \/ SegmentCallFails
  \/ JudgeRaises
  \/ JudgeResponds
  \/ Merge

\* process_audio in runs that are not cancelled and in which no temp file
\* is left behind.
Spec == Init /\ [][Next]_vars

\* Step 1 on the transcripts of up to MaxLiveWords words.
PrimaryReturnsLive ==
  /\ pc = "primary"
  /\ \E t \in RunTranscripts :
       /\ Len(t.words) <= MaxLiveWords
       /\ primary_result' = Some(t)
  /\ pc' = "analyze"
  /\ calls' = [calls EXCEPT !.primary = @ + 1]
  /\ UNCHANGED <<uncertain_segments, seg_index, candidate_results, decisions,
                 final_result, error>>
  /\ UNCHANGED <<in_flight, temp_files>>
  /\ UNCHANGED job_vars

NextLive ==
  \/ PrimaryFails
  \/ SegmentLoadFails
  \/ SegmentCallFails
  \/ JudgeRaises
  \/ PrimaryReturnsLive
  \/ SegmentCallStarts
  \/ SegmentCallReturns
  \/ JudgeResponds
  \/ Analyze
  \/ Merge

\* The steps of process_audio around its external calls: a call is started,
\* returns or fails (primary transcription, segment-level provider call,
\* judge call).
CallStep ==
  \/ PrimaryFails
  \/ SegmentLoadFails
  \/ SegmentCallFails
  \/ JudgeRaises
  \/ PrimaryReturnsLive
  \/ SegmentCallStarts
  \/ SegmentCallReturns
  \/ JudgeResponds

\* The two steps of process_audio that call nothing external, as seen from
\* the control point: the analyzer call is left for the segment loop or the
\* early return, the merge for the return. In a run these are the steps
\* Analyze and Merge, which are possible at every state at that point.
LocalStep ==
  \/ pc = "analyze" /\ pc' \in {"done", "fanout"}
  \/ pc = "merge" /\ pc' = "done"

\* process_audio when every external call (primary transcription,
\* segment-level provider call, judge call) eventually returns or fails, the
\* event loop resumes the coroutine whenever it can go on, and the
\* synchronous analyzer and merge calls run to their end.
SpecLive == Init /\ [][NextLive]_vars /\ WF_vars(CallStep) /\ WF_pc(LocalStep)

\* The run up to the end of the first segment's fan-out, with every way a
\* transcribe_segment call can end: a failing export and a cancellation too.
NextSegment ==
  \/ PrimaryReturns
  \/ Analyze
  \/ SegmentCallStarts
  \/ SegmentLoadFails
  \/ SegmentExportFails
  \/ SegmentCallReturns
  \/ SegmentCallFails
  \/ SegmentCallCancelled

SpecSegment == Init /\ [][NextSegment]_vars

\* The primary provider's transcribe returns a transcript in which a word may
\* start and end in the same millisecond: the provider's parser truncates
\* both timestamps to whole milliseconds, int(start * 1000) and
\* int(end * 1000), and tests neither.
InstantTranscripts ==
  {PrimaryResult(ws, RunAudioMs) : ws \in WordSeqs(MaxInstantWords, RunAudioMs, 0)}

PrimaryReturnsInstant ==
  /\ pc = "primary"
  /\ \E t \in InstantTranscripts : primary_result' = Some(t)
  /\ pc' = "analyze"
  /\ calls' = [calls EXCEPT !.primary = @ + 1]
  /\ UNCHANGED <<uncertain_segments, seg_index, candidate_results, decisions,
                 final_result, error>>
  /\ UNCHANGED <<in_flight, temp_files>>
  /\ UNCHANGED job_vars

NextInstant ==
  \/ PrimaryReturnsInstant
  \/ Analyze
  \/ SegmentCallStarts
  \/ SegmentLoadFails
  \/ SegmentCallReturns
  \/ SegmentCallFails
  \/ JudgeRaises
  \/ JudgeResponds
  \/ Merge

\* process_audio on transcripts that may hold words of zero milliseconds.
SpecInstant == Init /\ [][NextInstant]_vars

\* ------------------------------------------------------- transcription jobs
\* One entry of transcription_jobs; progress is in hundredths.
Job(status, progress, result, err) ==
  [status |-> status, progress |-> progress, result |-> result, error |-> err]

\* The routes and the background task are coroutines of one event loop: a
\* request handler runs only while no task is inside a synchronous block.
\* RequestRunsAnytime is the handler run on a thread of its own.
RequestRunsAnytime == TRUE
RequestRuns == running = 0

\* transcription_jobs[job_id] = {...} with a fresh uuid4, then
\* background_tasks.add_task(process_transcription, job_id, file_path)
upload_and_transcribe ==
  /\ running = 0
  /\ \E j \in JobIds :
       /\ transcription_jobs[j] = None
       /\ j > 1 => transcription_jobs[j - 1] # None
       /\ transcription_jobs' = [transcription_jobs EXCEPT ![j] = Some(Job("pending", 0, None, None))]
       /\ task' = [task EXCEPT ![j] = "queued"]
  /\ UNCHANGED <<running, last_response>>
  /\ UNCHANGED run_vars

\* process_transcription starts: transcription_jobs[job_id]["status"] = "processing"
TaskBegins ==
  /\ running = 0
  /\ \E j \in JobIds :
       /\ task[j] = "queued"
       /\ transcription_jobs' = [transcription_jobs EXCEPT ![j][1].status = "processing"]
       /\ task' = [task EXCEPT ![j] = "progress_10"]
       /\ running' = j
  /\ UNCHANGED last_response
  /\ UNCHANGED run_vars

\* the five assignments to ["progress"] and the statement each is followed by
ProgressAt ==
  [progress_10 |-> 10, progress_20 |-> 20, progress_70 |-> 70, progress_85 |-> 85,
   progress_100 |-> 100]

AfterProgress ==
  [progress_10 |-> "services", progress_20 |-> "await", progress_70 |-> "extract",
   progress_85 |-> "generate", progress_100 |-> "set_completed"]

\* transcription_jobs[job_id]["progress"] = ...; after progress 0.2 the task
\* awaits orchestrator.process_audio and leaves the event loop to the others
TaskSetsProgress ==
  /\ running # 0
  /\ task[running] \in DOMAIN ProgressAt
  /\ transcription_jobs' =
       [transcription_jobs EXCEPT ![running][1].progress = ProgressAt[task[running]]]
  /\ task' = [task EXCEPT ![running] = AfterProgress[task[running]]]
  /\ running' = IF AfterProgress[task[running]] = "await" THEN 0 ELSE running
  /\ UNCHANGED last_response
  /\ UNCHANGED run_vars

\* the synchronous calls of the task: the services and the orchestrator are
\* constructed, clinical_extractor.extract, timeline_generator.generate
AfterCall == [services |-> "progress_20", extract |-> "progress_85", generate |-> "progress_100"]

TaskCallReturns ==
  /\ running # 0
  /\ task[running] \in DOMAIN AfterCall
  /\ task' = [task EXCEPT ![running] = AfterCall[task[running]]]
  /\ UNCHANGED <<transcription_jobs, running, last_response>>
  /\ UNCHANGED run_vars

\* one of them raises: control goes to except Exception
TaskCallRaises ==
  /\ running # 0
  /\ task[running] \in DOMAIN AfterCall
  /\ task' = [task EXCEPT ![running] = "except_status"]
  /\ UNCHANGED <<transcription_jobs, running, last_response>>
  /\ UNCHANGED run_vars

\* await orchestrator.process_audio(file_path) returns and the task goes on
ProcessAudioReturns ==
  /\ running = 0
  /\ \E j \in JobIds :
       /\ task[j] = "await"
       /\ task' = [task EXCEPT ![j] = "progress_70"]
       /\ running' = j
  /\ UNCHANGED <<transcription_jobs, last_response>>
  /\ UNCHANGED run_vars

\* await orchestrator.process_audio(file_path) raises
ProcessAudioRaises ==
  /\ running = 0
  /\ \E j \in JobIds :
       /\ task[j] = "await"
       /\ task' = [task EXCEPT ![j] = "except_status"]
       /\ running' = j
  /\ UNCHANGED <<transcription_jobs, last_response>>
  /\ UNCHANGED run_vars

\* transcription_jobs[job_id]["status"] = "completed"
TaskSetsCompleted ==
  /\ running # 0
  /\ task[running] = "set_completed"
  /\ transcription_jobs' = [transcription_jobs EXCEPT ![running][1].status = "completed"]
  /\ task' = [task EXCEPT ![running] = "set_result"]
  /\ UNCHANGED <<running, last_response>>
  /\ UNCHANGED run_vars

\* transcription_jobs[job_id]["result"] = {...}, the last statement of the task
TaskSetsResult ==
  /\ running # 0
  /\ task[running] = "set_result"
  /\ transcription_jobs' = [transcription_jobs EXCEPT ![running][1].result = Some("result")]
  /\ task' = [task EXCEPT ![running] = "ended"]
  /\ running' = 0
  /\ UNCHANGED last_response
  /\ UNCHANGED run_vars

\* except Exception as e: transcription_jobs[job_id]["status"] = "failed"
TaskSetsFailed ==
  /\ running # 0
  /\ task[running] = "except_status"
  /\ transcription_jobs' = [transcription_jobs EXCEPT ![running][1].status = "failed"]
  /\ task' = [task EXCEPT ![running] = "except_error"]
  /\ UNCHANGED <<running, last_response>>
  /\ UNCHANGED run_vars

\* transcription_jobs[job_id]["error"] = str(e), and the task ends
TaskSetsError ==
  /\ running # 0
  /\ task[running] = "except_error"
  /\ transcription_jobs' = [transcription_jobs EXCEPT ![running][1].error = Some("e")]
  /\ task' = [task EXCEPT ![running] = "ended"]
  /\ running' = 0
  /\ UNCHANGED last_response
  /\ UNCHANGED run_vars

Response(j, route, code, status, progress, err, result) ==
  [job |-> j, route |-> route, code |-> code, status |-> status,
   progress |-> progress, error |-> err, result |-> result]

\* GET /transcription/{job_id}/status
get_transcription_status ==
  /\ RequestRuns
  /\ \E j \in JobIds :
       last_response' =
         IF transcription_jobs[j] = None
         THEN Some(Response(j, "status", 404, None, None, None, None))
         ELSE LET job == transcription_jobs[j][1]
              IN Some(Response(j, "status", 200, Some(job.status), Some(job.progress),
                               job.error, None))
  /\ UNCHANGED <<transcription_jobs, task, running>>
  /\ UNCHANGED run_vars

\* GET /transcription/{job_id}
get_transcription_result ==
  /\ RequestRuns
  /\ \E j \in JobIds :
       last_response' =
         IF transcription_jobs[j] = None
         THEN Some(Response(j, "result", 404, None, None, None, None))
         ELSE LET job == transcription_jobs[j][1]
              IN IF job.status = "failed"
                 THEN Some(Response(j, "result", 500, None, None, job.error, None))
                 ELSE IF job.status # "completed"
                 THEN Some(Response(j, "result", 202, Some(job.status), None, None, None))
                 ELSE Some(Response(j, "result", 200, Some("completed"), None, None,
                                    job.result))
  /\ UNCHANGED <<transcription_jobs, task, running>>
  /\ UNCHANGED run_vars

NextJobs ==
  \/ upload_and_transcribe
  \/ TaskBegins
  \/ TaskSetsProgress
  \/ TaskCallReturns
  \/ TaskCallRaises
  \/ ProcessAudioReturns
  \/ ProcessAudioRaises
  \/ TaskSetsCompleted
  \/ TaskSetsResult
  \/ TaskSetsFailed
  \/ TaskSetsError
  \/ get_transcription_status
  \/ get_transcription_result

\* The job routes and the background tasks of up to MaxJobs jobs, statement
\* by statement, on one event loop.
SpecJobs == Init /\ [][NextJobs]_vars

\* The analyzer alone, on every well-formed transcript of at most MaxWords
\* words with timestamps in 0..MaxTime (zero-length words included): the
\* primary provider's parse loop appends one word at a time, and the
\* analyzer can be run on whatever has been parsed.
InitAnalyzer ==
  /\ pc = "analyze"
  /\ primary_result = Some(PrimaryResult(<<>>, MaxTime))
  /\ uncertain_segments = <<>>
  /\ seg_index = 0
  /\ candidate_results = <<>>
  /\ decisions = <<>>
  /\ final_result = None
  /\ error = ""
  /\ calls = NoCalls
  /\ in_flight = {}
  /\ temp_files = {}
  /\ NoJobs

\* words.append(Word(...)) in the provider's _parse_response
ParseWord ==
  /\ pc = "analyze"
  /\ LET ws == primary_result[1].words
         from == IF ws = <<>> THEN 0 ELSE ws[Len(ws)].end_time_ms
     IN /\ Len(ws) < MaxWords
        /\ \E st \in from..MaxTime, en \in from..MaxTime, c \in WordConfidences :
             /\ st <= en
             /\ primary_result' = Some(PrimaryResult(
                  Append(ws, Word(<<Letters[Len(ws) + 1]>>, st, en, c, Some("0"))),
                  MaxTime))
  /\ UNCHANGED <<pc, uncertain_segments, seg_index, candidate_results, decisions,
                 final_result, error, calls>>
  /\ UNCHANGED <<in_flight, temp_files>>
  /\ UNCHANGED job_vars

NextAnalyzer ==
  \/ ParseWord
  \/ Analyze

SpecAnalyzer == InitAnalyzer /\ [][NextAnalyzer]_vars

\* The analyzer on longer transcripts, of at most MaxChainWords words ending
\* by MaxChainTime, in which a word lasts at most the minimum segment
\* duration and follows the previous one at once or after a pause longer
\* than the merge gap: enough for three groups to chain and for a short
\* group to be discarded between two others.
ParseChainWord ==
  /\ pc = "analyze"
  /\ LET ws == primary_result[1].words
         from == IF ws = <<>> THEN 0 ELSE ws[Len(ws)].end_time_ms
     IN /\ Len(ws) < MaxChainWords
        /\ \E pause \in {0, GapThresholdMs + 1}, length \in 0..MinSegmentDurationMs,
              c \in WordConfidences :
             /\ from + pause + length <= MaxChainTime
             /\ primary_result' = Some(PrimaryResult(
                  Append(ws, Word(<<Letters[Len(ws) + 1]>>, from + pause,
                                  from + pause + length, c, Some("0"))),
                  MaxTime))
  /\ UNCHANGED <<pc, uncertain_segments, seg_index, candidate_results, decisions,
                 final_result, error, calls>>
  /\ UNCHANGED <<in_flight, temp_files>>
  /\ UNCHANGED job_vars

NextChain ==
  \/ ParseChainWord
  \/ Analyze

SpecChain == InitAnalyzer /\ [][NextChain]_vars

\* _merge_decisions alone, on the primary transcripts of at most
\* MaxMergeWords words in 0..MergeTime and on lists of at most
\* MaxMergeDecisions decisions whose spans, ordered and disjoint, are any
\* intervals of 0..MergeTime + 1: they need not come from the analyzer.
InitMerge ==
  /\ pc = "merge"
  /\ primary_result \in
       {Some(PrimaryResult(ws, MergeTime)) : ws \in WordSeqs(MaxMergeWords, MergeTime, 1)}
  /\ uncertain_segments = <<>>
  /\ seg_index = 0
  /\ candidate_results = <<>>
  /\ decisions = <<>>
  /\ final_result = None
  /\ error = ""
  /\ calls = NoCalls
  /\ in_flight = {}
  /\ temp_files = {}
  /\ NoJobs

\* final_text of the given decisions: one, two and three tokens with runs of
\* whitespace around them, the empty text and a blank text
MergeTexts ==
  {<<"u">>, SynthText, <<" ", "u", " ", "v", " ", "w">>, <<>>, <<" ">>}

\* the decisions argument of _merge_decisions gets one more decision: a
\* synthesis, or a choice of deepgram with no candidate present
GivenDecision ==
  /\ pc = "merge"
  /\ Len(decisions) < MaxMergeDecisions
  /\ LET from == IF decisions = <<>> THEN 0
                 ELSE decisions[Len(decisions)].segment.end_time_ms
     IN \E st \in from..(MergeTime + 1), en \in from..(MergeTime + 1),
           source \in {"deepgram", "synthesized"}, text \in MergeTexts :
          /\ st < en
          /\ source = "deepgram" => text = <<"u">>
          /\ LET InSpan(w) == w.start_time_ms >= st /\ w.end_time_ms <= en
                 ws == SelectSeq(primary_result[1].words, InSpan)
                 segment == UncertainSegment(st, en, ws,
                              calculate_overall_confidence(ws), <<>>, <<>>)
                 made == OrchestratorDecision(segment,
                           candidate_transcriptions(<<None, None, None>>),
                           source, text, "because", Conf(DefaultConfidenceBoost), None)
             IN /\ decisions' = CollectDecision(decisions, made.decision)
                /\ uncertain_segments' = Append(uncertain_segments, segment)
  /\ UNCHANGED <<pc, primary_result, seg_index, candidate_results, final_result,
                 error, calls, in_flight, temp_files>>
  /\ UNCHANGED job_vars

NextMerge ==
  \/ GivenDecision
  \/ Merge

SpecMerge == InitMerge /\ [][NextMerge]_vars

\* The judge alone, on one uncertain segment and every combination of
\* absent providers, providers that found no word (overall confidence 0.0)
\* and providers answering one word with a confidence of JudgeConfidences.
JudgeConfidences == {0, 50, 95, 100}
JudgeTranscript ==
  PrimaryResult(<<Word(<<"a">>, 0, 2, Conf(40), Some("0"))>>, RunAudioMs)

\* what provider k's transcribe_segment can have returned for the segment
JudgeCandidates(k, segment) ==
  LET clip == extract_audio_segment(JudgeTranscript.duration_ms,
                segment.start_time_ms, segment.end_time_ms)
      Answer(ws) == transcribe_segment(
                      TranscriptionResult(Join(Texts(ws)), ws,
                        calculate_overall_confidence(ws), clip.end - clip.start,
                        ModelNames[k]),
                      segment.start_time_ms)
  IN {None, Some(Answer(<<>>))}
     \cup {Some(Answer(<<Word(<<CandidateLetters[k]>>, 0, clip.end - clip.start,
                              Conf(c), None)>>)) : c \in JudgeConfidences}

InitJudge ==
  /\ pc = "judge"
  /\ primary_result = Some(JudgeTranscript)
  /\ uncertain_segments = identify_uncertain_segments(JudgeTranscript)
  /\ seg_index = 1
  /\ candidate_results \in
       [1..Len(Providers) -> UNION {JudgeCandidates(k, uncertain_segments[1]) :
                                      k \in 1..Len(Providers)}]
  /\ \A k \in 1..Len(Providers) :
       candidate_results[k] \in JudgeCandidates(k, uncertain_segments[1])
  /\ decisions = <<>>
  /\ final_result = None
  /\ error = ""
  /\ calls = [NoCalls EXCEPT !.primary = 1, !.analyze = 1, !.segment = Len(Providers)]
  /\ in_flight = {}
  /\ temp_files = {}
  /\ NoJobs

NextJudge ==
  \/ JudgeRaises
  \/ JudgeResponds

SpecJudge == InitJudge /\ [][NextJudge]_vars

\* ----------------------------------------------------------------- claims
Duration(seg) == seg.end_time_ms - seg.start_time_ms

Done == pc = "done"
FinalWords == final_result[1].words
PrimaryWords == primary_result[1].words

\* segments strictly ordered by start and pairwise non-overlapping
OrderedDisjoint(segs) ==
  \A i \in 1..Len(segs) : \A j \in (i + 1)..Len(segs) :
    /\ segs[i].start_time_ms < segs[j].start_time_ms
    /\ segs[i].end_time_ms <= segs[j].start_time_ms

MergedSegments(t) == merge_adjacent_segments(group_words(t, 1, <<>>, <<>>))

\* C1: whenever process_audio has returned, the final transcript's words are
\* monotonic: each word ends at or before the start of the next one (the
\* primary's words and every provider's words are monotonic by construction).
C1_FinalWordsMonotonic == Done => Monotonic(FinalWords)

\* C2: whenever process_audio has returned, the final transcript has the
\* primary's duration, its first word starts at or after the primary's first
\* word and its last word ends at or before the primary's duration.
C2_Coverage ==
  Done =>
    /\ final_result[1].duration_ms = primary_result[1].duration_ms
    /\ FinalWords # <<>> /\ PrimaryWords # <<>> =>
         /\ FinalWords[1].start_time_ms >= PrimaryWords[1].start_time_ms
         /\ FinalWords[Len(FinalWords)].end_time_ms <= primary_result[1].duration_ms

\* C3: for a well-formed primary transcript, the segments the analyzer
\* returns are strictly ordered by start and pairwise non-overlapping, and so
\* are the segments after the merge-adjacent step, before the split.
C3_SegmentsOrderedDisjoint ==
  /\ OrderedDisjoint(uncertain_segments)
  /\ OrderedDisjoint(MergedSegments(primary_result[1]))

\* C3 witness: the analyzer returned two segments that come from splitting a
\* long segment, which itself came from merging two groups.
C3_Witness ==
  /\ calls.analyze = 1
  /\ Len(uncertain_segments) >= 2
  /\ Len(MergedSegments(primary_result[1])) < Len(uncertain_segments)
  /\ Len(MergedSegments(primary_result[1])) < Len(group_words(primary_result[1], 1, <<>>, <<>>))

\* C4: no segment the analyzer returns is longer than the maximum segment
\* duration.
C4_NoSegmentAboveMax ==
  \A k \in 1..Len(uncertain_segments) :
    Duration(uncertain_segments[k]) <= MaxSegmentDurationMs

\* C5: no segment the analyzer returns is shorter than the minimum segment
\* duration.
C5_NoSegmentBelowMin ==
  \A k \in 1..Len(uncertain_segments) :
    Duration(uncertain_segments[k]) >= MinSegmentDurationMs

JudgeErrors == {"JudgeError", "AttributeError", "TypeError", "ValidationError"}

\* C6: every invocation of the judge yields a decision, also when the LLM
\* call raises or answers something unusable, and process_audio never fails
\* because of the judge.
C6_JudgeAlwaysDecides ==
  /\ error \notin JudgeErrors
  /\ pc \in {"fanout", "judge"} => calls.judge = Len(decisions)
  /\ pc \in {"merge", "done"} /\ uncertain_segments # <<>> => calls.judge = Len(decisions)

\* a provider's transcribe_segment failed for the segment being arbitrated
\* or for one already decided
FailedNow == \E k \in 1..Len(candidate_results) : candidate_results[k] = None
FailedBefore ==
  \E k \in 1..Len(decisions) : DOMAIN decisions[k].candidate_transcriptions # ProviderNames
ProviderFailed == FailedNow \/ FailedBefore

\* C7: when a provider's transcribe_segment call fails for a segment, the
\* other providers are still called for it, the failed provider is absent
\* from the segment's decision, the judge is invoked for the segment and
\* process_audio completes: it never ends in failure.
C7_ProviderFailureTolerated ==
  /\ ProviderFailed => pc # "failed"
  /\ calls.segment = Len(Providers) * Len(decisions) + Len(candidate_results)
                      + Cardinality(in_flight)
  /\ \A k \in 1..Len(decisions) :
       /\ DOMAIN decisions[k].candidate_transcriptions \subseteq ProviderNames
       /\ decisions[k].segment = uncertain_segments[k]

\* C8: when the primary provider's whole-file call has failed, process_audio
\* has failed with that error and has run no analysis, no segment-level
\* provider call, no judge call and no merge, and returns nothing.
C8_PrimaryFailureFailsRun ==
  calls.primary = 1 /\ primary_result = None =>
    /\ pc = "failed"
    /\ error = "PrimaryError"
    /\ calls.analyze = 0 /\ calls.segment = 0 /\ calls.judge = 0 /\ calls.merge = 0
    /\ uncertain_segments = <<>> /\ decisions = <<>> /\ final_result = None

\* C8 witness: the primary call was made and failed.
C8_Witness == calls.primary = 1 /\ primary_result = None /\ pc = "failed"

\* C9: the judge never raises over a confidence_boost outside [0, 1]: every
\* decision is produced, with a confidence_boost inside [0, 1].
C9_BoostClampedNotRaised ==
  /\ error # "ValidationError"
  /\ \A k \in 1..Len(decisions) :
       /\ ~RatLt(decisions[k].confidence_boost, Conf(0))
       /\ ~RatLt(Conf(100), decisions[k].confidence_boost)

\* C10: in every decision, chosen_source is "synthesized" exactly when a
\* synthesis_justification is present.
C10_SynthesisAccounting ==
  \A k \in 1..Len(decisions) :
    (decisions[k].chosen_source = "synthesized")
      <=> (decisions[k].synthesis_justification # None)

\* C11: within one segment the providers' transcribe_segment calls run in
\* parallel: whenever a provider's call for the segment ends, every
\* provider's call for that segment has already been started.
C11_FanoutParallel ==
  [][Len(candidate_results') > Len(candidate_results) =>
       calls'.segment = Len(Providers) * seg_index]_vars

\* C12: segments are arbitrated one after the other in analyzer order: no
\* provider call of a later segment is made before the decisions of all
\* earlier segments are collected, each collected decision is the one of the
\* analyzer's segment at the same position, the decisions are strictly
\* ordered by segment start, and process_audio returns as many decisions as
\* the analyzer found segments.
C12_SegmentsSequential ==
  /\ calls.segment <= Len(Providers) * (Len(decisions) + 1)
  /\ pc \in {"fanout", "judge"} => Len(decisions) = seg_index - 1
  /\ \A k \in 1..Len(decisions) : decisions[k].segment = uncertain_segments[k]
  /\ \A k \in 1..(Len(decisions) - 1) :
       decisions[k].segment.start_time_ms < decisions[k + 1].segment.start_time_ms
  /\ Done => Len(decisions) = Len(uncertain_segments)

\* C12 witness: process_audio returned with the decisions of two segments.
C12_Witness == Done /\ Len(uncertain_segments) >= 2 /\ Len(decisions) >= 2

\* C13: no temp file outlives the transcribe_segment call that made it:
\* every temp file on disk belongs to a call that is still in flight,
\* whichever way the earlier calls ended (result, provider failure, failure
\* while extracting or exporting the clip, cancellation).
C13_TempFilesReleased ==
  \A f \in temp_files :
    pc = "fanout" /\ f.segment = seg_index /\ f.provider \in in_flight

\* C14: the provider reporting word times relative to the extracted clip,
\* every word transcribe_segment returns for a segment starts and ends
\* within [start_ms - padding, end_ms + padding] on the original audio axis.
C14_ReanchoredWithinRegion ==
  pc \in {"fanout", "judge"} =>
    \A k \in Present(candidate_results) :
      \A j \in 1..Len(candidate_results[k][1].words) :
        LET w == candidate_results[k][1].words[j]
        IN /\ w.start_time_ms >= CurrentSegment.start_time_ms - PaddingMs
           /\ w.end_time_ms <= CurrentSegment.end_time_ms + PaddingMs

\* word w lies within the span of segment seg
Within(w, seg) ==
  w.start_time_ms >= seg.start_time_ms /\ w.end_time_ms <= seg.end_time_ms

\* every provider failed for every segment and no decision synthesizes
AllFailedNoSynthesis ==
  /\ decisions # <<>>
  /\ \A k \in 1..Len(decisions) :
       /\ DOMAIN decisions[k].candidate_transcriptions = {}
       /\ decisions[k].chosen_source # "synthesized"

\* C15: when every provider failed for every uncertain segment and the judge
\* did not synthesize, process_audio returns the primary's words, none lost,
\* in order, with the same texts, timestamps and speakers; a word's
\* confidence is the primary's unless the word lies inside an uncertain
\* segment, where it is that segment's confidence_boost.
C15_AllFailedKeepsPrimary ==
  Done /\ AllFailedNoSynthesis =>
    /\ Len(FinalWords) = Len(PrimaryWords)
    /\ \A k \in 1..Min(Len(FinalWords), Len(PrimaryWords)) :
         /\ FinalWords[k].text = PrimaryWords[k].text
         /\ FinalWords[k].start_time_ms = PrimaryWords[k].start_time_ms
         /\ FinalWords[k].end_time_ms = PrimaryWords[k].end_time_ms
         /\ FinalWords[k].speaker = PrimaryWords[k].speaker
         /\ \/ FinalWords[k].confidence = PrimaryWords[k].confidence
            \/ \E j \in 1..Len(decisions) :
                 /\ Within(PrimaryWords[k], decisions[j].segment)
                 /\ FinalWords[k].confidence = decisions[j].confidence_boost

\* some decision's span holds no primary word
SpanWithoutPrimaryWord ==
  \E k \in 1..Len(decisions) :
    \A i \in 1..Len(PrimaryWords) : ~Within(PrimaryWords[i], decisions[k].segment)

\* C16: when the merge has run on a decision list in which some decision's
\* span holds no primary word, it has failed with an error and returned no
\* transcript.
C16_MergeFailsLoudly ==
  calls.merge = 1 /\ SpanWithoutPrimaryWord => pc = "failed" /\ final_result = None

AllConfident(ws) ==
  \A k \in 1..Len(ws) : ~RatLt(ws[k].confidence, Conf(ConfidenceThreshold))

\* C17: when the analyzer has found no uncertain segment, which is the case
\* whenever every word's confidence is at or above the threshold,
\* process_audio has returned the primary transcript unchanged with an empty
\* decision list and has made no transcribe_segment call and no judge call.
C17_NoSegmentsReturnsPrimary ==
  /\ calls.analyze = 1 /\ AllConfident(PrimaryWords) => uncertain_segments = <<>>
  /\ calls.analyze = 1 /\ uncertain_segments = <<>> =>
       /\ Done
       /\ final_result = primary_result
       /\ decisions = <<>>
       /\ calls.segment = 0 /\ calls.judge = 0

\* C17 witness: process_audio returned for a primary transcript of confident
\* words only.
C17_Witness ==
  /\ Done /\ calls.analyze = 1 /\ uncertain_segments = <<>>
  /\ PrimaryWords # <<>> /\ AllConfident(PrimaryWords)

\* C18: the judge is invoked once per uncertain segment and only when every
\* provider's transcribe_segment call for that segment has returned or
\* failed, all of them having failed included: while a segment's fan-out
\* runs the judge has been invoked for the earlier segments only, it is
\* invoked with the results of all providers and no call in flight, and
\* after the last segment it has been invoked once per segment.
C18_JudgeOnceAfterFanout ==
  /\ pc \in {"fanout", "judge"} => calls.judge = seg_index - 1
  /\ pc = "judge" =>
       /\ Len(candidate_results) = Len(Providers)
       /\ in_flight = {}
       /\ calls.segment = Len(Providers) * seg_index
  /\ pc = "failed" /\ error \in JudgeErrors => calls.judge = seg_index
  /\ pc \in {"merge", "done"} => calls.judge = Len(uncertain_segments)
  /\ calls.segment >= Len(Providers) * calls.judge

\* C18 witness: the judge was invoked for a segment for which every provider
\* failed, and decided.
C18_Witness ==
  /\ calls.judge >= 1 /\ calls.segment >= Len(Providers)
  /\ decisions # <<>>
  /\ DOMAIN decisions[1].candidate_transcriptions = {}

FallbackReasoning == "Automatic fallback: selected highest confidence"

\* C19: a decision of the deterministic fallback made with at least one
\* candidate present chooses a present candidate of maximal confidence,
\* takes that candidate's text as final_text and sets confidence_boost to
\* min(that confidence + 0.1, 1.0); ties and confidences of 0 included.
C19_FallbackPicksBest ==
  \A k \in 1..Len(decisions) :
    LET d == decisions[k]
        cands == d.candidate_transcriptions
    IN d.reasoning = FallbackReasoning /\ DOMAIN cands # {} =>
         /\ d.chosen_source \in DOMAIN cands
         /\ \A name \in DOMAIN cands :
              ~RatLt(cands[d.chosen_source].confidence, cands[name].confidence)
         /\ d.final_text = cands[d.chosen_source].text
         /\ d.confidence_boost =
              RatMin(RatAdd(cands[d.chosen_source].confidence, Conf(FallbackBoostStep)),
                     Conf(100))

ChosenPresent(d) == d.chosen_source \in DOMAIN d.candidate_transcriptions

\* the primary words lying between the (k-1)-th and the k-th decision's
\* segment; before the first and after the last segment at the two ends
PrimaryBetween(k) ==
  LET from == IF k = 1 THEN 0 ELSE decisions[k - 1].segment.end_time_ms
      to == IF k > Len(decisions) THEN primary_result[1].duration_ms
            ELSE decisions[k].segment.start_time_ms
      Between(w) == w.start_time_ms >= from /\ w.end_time_ms <= to
  IN SelectSeq(PrimaryWords, Between)

\* what the claim says is emitted for the k-th decision's segment when its
\* chosen source is a present candidate
ClaimedWords(k) ==
  LET d == decisions[k]
      cws == d.candidate_transcriptions[d.chosen_source].words
  IN [i \in 1..Len(cws) |->
        Word(cws[i].text, cws[i].start_time_ms, cws[i].end_time_ms,
             d.confidence_boost, cws[i].speaker)]

RECURSIVE ClaimedFrom(_)
ClaimedFrom(k) ==
  IF k > Len(decisions) THEN PrimaryBetween(k)
  ELSE PrimaryBetween(k)
       \o (IF ChosenPresent(decisions[k]) THEN ClaimedWords(k)
           ELSE replacement_words(decisions[k]))
       \o ClaimedFrom(k + 1)

Applied(k) ==
  \A j \in 1..k : \E i \in 1..Len(PrimaryWords) :
    Within(PrimaryWords[i], decisions[j].segment)

\* the final words that start inside the k-th decision's span and end within it
EmittedFor(k) ==
  LET seg == decisions[k].segment
      Inside(w) == /\ w.start_time_ms >= seg.start_time_ms
                   /\ w.start_time_ms < seg.end_time_ms
                   /\ w.end_time_ms <= seg.end_time_ms
  IN SelectSeq(FinalWords, Inside)

NotContained(w) == \A k \in 1..Len(decisions) : ~Within(w, decisions[k].segment)

IsPrimaryWord(w) == \E i \in 1..Len(PrimaryWords) : PrimaryWords[i] = w

\* C22: the merge keeps and replaces disjoint parts of the primary
\* transcript: the primary words contained in no decision's segment are in
\* the final transcript once each, unchanged and in their order, and no
\* primary word contained in the segment of an applied decision is in the
\* final transcript next to that segment's replacement.
C22_KeptAndReplacedDisjoint ==
  Done /\ calls.merge = 1 =>
    /\ LET KeptCopy(w) == IsPrimaryWord(w) /\ NotContained(w)
       IN SelectSeq(FinalWords, KeptCopy) = SelectSeq(PrimaryWords, NotContained)
    /\ \A k \in 1..Len(decisions) : \A i \in 1..Len(PrimaryWords) :
         Applied(k) /\ Within(PrimaryWords[i], decisions[k].segment) =>
           \A j \in 1..Len(FinalWords) : FinalWords[j] # PrimaryWords[i]

\* C22 witness: a merge applied a decision whose segment contains a primary
\* word while another primary word lies in no segment.
C22_Witness ==
  /\ Done /\ calls.merge = 1
  /\ \E k \in 1..Len(decisions) : \E i, j \in 1..Len(PrimaryWords) :
       /\ Applied(k)
       /\ Within(PrimaryWords[i], decisions[k].segment)
       /\ NotContained(PrimaryWords[j])

\* C23: the transcript the merge returns for a non-empty decision list has
\* as overall_confidence the arithmetic mean of its words' confidences, 0
\* when it has no words; its full_text is the single-space join of its
\* words' texts and its model_name is "orchestrated".
C23_MergedSummaryFields ==
  Done /\ calls.merge = 1 /\ decisions # <<>> =>
    /\ final_result[1].overall_confidence =
         (IF FinalWords = <<>> THEN Conf(0)
          ELSE RatDiv(SumConfidence(FinalWords), Len(FinalWords)))
    /\ final_result[1].full_text = Join(Texts(FinalWords))
    /\ final_result[1].model_name = "orchestrated"

GroupedSegments(t) == group_words(t, 1, <<>>, <<>>)

\* the segments of segs that lie within the span of m
MembersOf(m, segs) ==
  LET In(g) == g.start_time_ms >= m.start_time_ms /\ g.end_time_ms <= m.end_time_ms
  IN SelectSeq(segs, In)

RECURSIVE AllWords(_)
AllWords(segs) ==
  IF segs = <<>> THEN <<>> ELSE segs[1].original_words \o AllWords(Tail(segs))

RECURSIVE WeightedSum(_)
WeightedSum(segs) ==
  IF segs = <<>> THEN <<0, 1>>
  ELSE RatAdd(RatScale(segs[1].average_confidence, Len(segs[1].original_words)),
              WeightedSum(Tail(segs)))

\* C24: in the output of the merge-adjacent step consecutive segments are
\* more than the gap threshold apart, and every output segment is the merge
\* of a run of successive input segments with gaps at most the threshold:
\* it has the first one's start and context_before, the last one's end and
\* context_after, the concatenation of their words and their count-weighted
\* mean confidence; every input segment is in exactly one output segment.
C24_MergeAdjacent ==
  calls.analyze = 1 =>
    LET grouped == GroupedSegments(primary_result[1])
        merged == MergedSegments(primary_result[1])
    IN /\ \A k \in 1..(Len(merged) - 1) :
            merged[k + 1].start_time_ms - merged[k].end_time_ms > GapThresholdMs
       /\ AllWords(merged) = AllWords(grouped)
       /\ \A k \in 1..Len(merged) :
            LET m == merged[k]
                ms == MembersOf(m, grouped)
            IN /\ ms # <<>>
               /\ \A i \in 1..(Len(ms) - 1) :
                    ms[i + 1].start_time_ms - ms[i].end_time_ms <= GapThresholdMs
               /\ m.start_time_ms = ms[1].start_time_ms
               /\ m.end_time_ms = ms[Len(ms)].end_time_ms
               /\ m.original_words = AllWords(ms)
               /\ m.average_confidence = RatDiv(WeightedSum(ms), Len(AllWords(ms)))
               /\ m.context_before = ms[1].context_before
               /\ m.context_after = ms[Len(ms)].context_after

\* C24 witness: the analyzer ran on a transcript in which three groups
\* chain into one merged segment.
C24_Witness ==
  /\ calls.analyze = 1
  /\ \E k \in 1..Len(MergedSegments(primary_result[1])) :
       Len(MembersOf(MergedSegments(primary_result[1])[k],
                     GroupedSegments(primary_result[1]))) >= 3

IsLow(w) == RatLt(w.confidence, Conf(ConfidenceThreshold))

\* C25: original_words of every segment the analyzer returns is exactly the
\* sequence of the primary words below the threshold that lie within the
\* segment's interval, in transcript order.
C25_OriginalWordsExact ==
  calls.analyze = 1 =>
    \A k \in 1..Len(uncertain_segments) :
      LET seg == uncertain_segments[k]
          LowInside(w) == IsLow(w) /\ Within(w, seg)
      IN seg.original_words = SelectSeq(PrimaryWords, LowInside)

\* ---------------------------------------------------------------------
\* C26 -- a transcript whose words are all below the threshold
AllLow == \A i \in 1..Len(PrimaryWords) : IsLow(PrimaryWords[i])

Span == PrimaryWords[Len(PrimaryWords)].end_time_ms - PrimaryWords[1].start_time_ms

SingleFullSegment ==
  /\ Len(uncertain_segments) = 1
  /\ uncertain_segments[1].start_time_ms = PrimaryWords[1].start_time_ms
  /\ uncertain_segments[1].end_time_ms = PrimaryWords[Len(PrimaryWords)].end_time_ms
  /\ uncertain_segments[1].original_words = PrimaryWords

\* C26 (as stated): for a non-empty transcript whose words are all below the
\* threshold and whose span does not exceed max_segment_duration_ms, the
\* analyzer returns exactly one segment running from the first word's start
\* to the last word's end and holding all the words; an empty transcript
\* yields an empty list.
C26_AllLowSingleSegment ==
  calls.analyze = 1 =>
    /\ PrimaryWords = <<>> => uncertain_segments = <<>>
    /\ (PrimaryWords # <<>> /\ AllLow /\ Span <= MaxSegmentDurationMs)
         => SingleFullSegment

\* C26 (amended): the single segment is returned when the span is at least
\* min_segment_duration_ms and at most max_segment_duration_ms; when the span
\* is below the minimum the one group is discarded and the list is empty; an
\* empty transcript yields an empty list.
C26_AllLowSingleSegmentAboveMin ==
  calls.analyze = 1 =>
    /\ PrimaryWords = <<>> => uncertain_segments = <<>>
    /\ (PrimaryWords # <<>> /\ AllLow /\ Span <= MaxSegmentDurationMs)
         => IF Span >= MinSegmentDurationMs
            THEN SingleFullSegment
            ELSE uncertain_segments = <<>>

C26_Witness ==
  /\ calls.analyze = 1
  /\ Len(PrimaryWords) >= 2
  /\ AllLow
  /\ Span >= MinSegmentDurationMs
  /\ Span <= MaxSegmentDurationMs
  /\ SingleFullSegment

\* ---------------------------------------------------------------------
\* C27 -- every decision of the run is applied once
RECURSIVE ReplacementCount(_)
ReplacementCount(k) ==
  IF k > Len(decisions) THEN 0
  ELSE Len(replacement_words(decisions[k])) + ReplacementCount(k + 1)

\* C27: when the decision list is the one built from the segments the
\* analyzer produced on the same primary transcript, the merge applies every
\* decision exactly once: the decision pointer ends past the last decision,
\* and the final transcript holds each decision's replacement words once
\* next to the primary words that lie in no segment.
C27_EveryDecisionAppliedOnce ==
  Done /\ calls.merge = 1 =>
    /\ merge_walk(PrimaryWords, decisions, 1, 1, <<>>).decision_index
         = Len(decisions) + 1
    /\ Len(FinalWords)
         = ReplacementCount(1) + Len(SelectSeq(PrimaryWords, NotContained))

\* ---------------------------------------------------------------------
\* C28 -- splitting a long segment loses and duplicates nothing
IsLong(seg) == seg.end_time_ms - seg.start_time_ms > MaxSegmentDurationMs

\* the returned segments that lie within the span of a segment of the merge step
PiecesOf(parent) ==
  LET Inside(s) == /\ s.start_time_ms >= parent.start_time_ms
                   /\ s.end_time_ms <= parent.end_time_ms
  IN SelectSeq(uncertain_segments, Inside)

RECURSIVE PieceWords(_)
PieceWords(pieces) ==
  IF pieces = <<>> THEN <<>>
  ELSE pieces[1].original_words \o PieceWords(Tail(pieces))

\* C28: for every segment of the merge step that is longer than the maximum,
\* the pieces returned for it hold the parent's original_words once each and
\* in order, every piece has at least one word, each piece ends where the
\* next one starts, the first starts at the parent's start and the last ends
\* at the parent's end, and every piece carries the parent's two contexts.
C28_SplitLosesNothing ==
  calls.analyze = 1 =>
    \A k \in 1..Len(MergedSegments(primary_result[1])) :
      LET parent == MergedSegments(primary_result[1])[k]
          pieces == PiecesOf(parent)
      IN IsLong(parent) =>
           /\ pieces # <<>>
           /\ PieceWords(pieces) = parent.original_words
           /\ \A i \in 1..Len(pieces) :
                /\ pieces[i].original_words # <<>>
                /\ pieces[i].context_before = parent.context_before
                /\ pieces[i].context_after = parent.context_after
           /\ \A i \in 1..(Len(pieces) - 1) :
                pieces[i].end_time_ms = pieces[i + 1].start_time_ms
           /\ pieces[1].start_time_ms = parent.start_time_ms
           /\ pieces[Len(pieces)].end_time_ms = parent.end_time_ms

\* C28 witness: a long segment was split into two pieces, the first of two
\* words, the second the remainder after the last full chunk.
C28_Witness ==
  /\ calls.analyze = 1
  /\ \E k \in 1..Len(MergedSegments(primary_result[1])) :
       LET parent == MergedSegments(primary_result[1])[k]
       IN /\ IsLong(parent)
          /\ Len(PiecesOf(parent)) = 2
          /\ Len(PiecesOf(parent)[1].original_words) = 2
          /\ PiecesOf(parent)[2].end_time_ms - PiecesOf(parent)[2].start_time_ms
               < MaxSegmentDurationMs

\* ---------------------------------------------------------------------
\* C29 -- process_audio terminates
Terminated == pc \in {"done", "failed"}

\* the loops of the run stay within their ranges: the segment loop is at a
\* segment of the list, the provider loop has awaited at most one call per
\* provider for it, one judge call per visited segment, and wherever the
\* merge walk meets a word within the current decision's span the skip loop
\* moves the word index forward
LoopsAdvance ==
  /\ seg_index <= Len(uncertain_segments)
  /\ Len(candidate_results) <= Len(Providers)
  /\ Len(decisions) <= Len(uncertain_segments)
  /\ calls.segment <= Len(uncertain_segments) * Len(Providers)
  /\ calls.judge <= Len(uncertain_segments)
  /\ calls.merge <= 1
  /\ pc = "merge" =>
       \A k \in 1..Len(decisions) : \A i \in 1..Len(PrimaryWords) :
         Within(PrimaryWords[i], decisions[k].segment) =>
           skip_words(PrimaryWords, i, decisions[k].segment.end_time_ms) > i

\* C29: provided every external call eventually returns or fails,
\* process_audio terminates, by returning a result or by raising; on the way
\* the segment loop visits each segment once, the provider loop awaits each
\* provider once and the merge walk advances the word index.
C29_ProcessAudioTerminates == <>Terminated /\ []LoopsAdvance

\* C29 witness: a run over two segments went through both loops and the
\* merge and returned.
C29_Witness ==
  /\ pc = "done"
  /\ calls.merge = 1
  /\ Len(decisions) >= 2
  /\ calls.segment = Len(decisions) * Len(Providers)

\* ---------------------------------------------------------------------
\* C30 -- the life of a transcription job
AllowedMoves ==
  {<<"pending", "processing">>, <<"processing", "completed">>, <<"processing", "failed">>}

\* what a step does to the stored jobs: a job is created pending and is never
\* removed, its status stays or makes an allowed move, its progress does not
\* decrease
JobMoves ==
  \A j \in JobIds :
    IF transcription_jobs[j] = None
    THEN transcription_jobs'[j] # None => transcription_jobs'[j][1].status = "pending"
    ELSE /\ transcription_jobs'[j] # None
         /\ \/ transcription_jobs'[j][1].status = transcription_jobs[j][1].status
            \/ <<transcription_jobs[j][1].status, transcription_jobs'[j][1].status>>
                  \in AllowedMoves
         /\ transcription_jobs'[j][1].progress >= transcription_jobs[j][1].progress

JobConsistent(job) ==
  /\ job.status \in {"pending", "processing", "completed", "failed"}
  /\ job.status = "completed" => job.progress = 100
  /\ job.result # None <=> job.status = "completed"
  /\ job.error # None <=> job.status = "failed"

\* whenever a request can run, every stored job is consistent
VisibleJobsConsistent ==
  RequestRuns =>
    \A j \in JobIds : transcription_jobs[j] # None => JobConsistent(transcription_jobs[j][1])

\* what a request was answered: a status answer carries an error exactly
\* when it says failed and progress 1.0 when it says completed; a result is
\* delivered non-null, and a failure with its error
ResponseConsistent ==
  last_response # None =>
    LET r == last_response[1]
    IN /\ (r.route = "status" /\ r.code = 200) =>
            /\ r.error # None <=> r.status = Some("failed")
            /\ r.status = Some("completed") => r.progress = Some(100)
       /\ (r.route = "result" /\ r.code = 200) => r.result # None
       /\ (r.route = "result" /\ r.code = 500) => r.error # None

\* C30: a job's status only moves pending -> processing -> completed or
\* pending -> processing -> failed, completed and failed are terminal,
\* progress never decreases and is 1.0 whenever the status is completed, the
\* result is non-null exactly when the status is completed and the error
\* exactly when it is failed, in every state a status or result request can
\* see and in every answer, under any interleaving of the tasks, the
\* requests and other jobs.
C30_JobLifecycle ==
  [](VisibleJobsConsistent /\ ResponseConsistent) /\ [][JobMoves]_vars

\* C30 witness: one job completed and another failed, and a result request
\* was answered with the completed job's result.
C30_Witness ==
  /\ \E j, k \in JobIds :
       /\ transcription_jobs[j] # None /\ transcription_jobs[k] # None
       /\ transcription_jobs[j][1].status = "completed"
       /\ transcription_jobs[k][1].status = "failed"
       /\ last_response = Some(Response(j, "result", 200, Some("completed"), None, None,
                                         Some("result")))

====
